---- MODULE Spec2Model ----
(***************************************************************************)
(* Traffic-manager control plane of the Octeon device plugin                *)
(* (src/plugins/dev_octeon/tm.c): the eight facade operations of            *)
(* dev_oct_tm_ops over one port.  The vendor layer, roc_nix_tm, is not      *)
(* part of tm.c; it is modelled as the registry it keeps: nodes, shaper     *)
(* profiles, the user-hierarchy flag, and an acceptance input per call.      *)
(***************************************************************************)
EXTENDS Integers, Sequences, FiniteSets, TLC

VARIABLES
  tm_ena,          \* nix: the user hierarchy is enabled (COMMITTED)
  nodes,           \* nix: node id -> descriptor registered with the vendor layer
  profiles,        \* nix: shaper id -> descriptor registered with the vendor layer
  num_tx_queues,   \* port->intf.num_tx_queues
  caller,          \* the ids the upstream dataplane uses on this port
  last,            \* observer: the facade call that produced this state
  prev_stop,       \* observer: the stop directly before `last`, when last is a stop or a start
  prev_create,     \* observer: the shaper_profile_create directly before `last`, when last is one too
  live,            \* observer: descriptors allocated by the core and not freed since
  race             \* a node_read_stats and a node_delete in progress on two contexts

vars == <<tm_ena, nodes, profiles, num_tx_queues, caller, last, prev_stop, prev_create, live, race>>

---------------------------------------------------------------------------
\* Bounds of the model.
MaxNodeId == 3
LeafLvl == 1
NumTxQueues == 1

\* Values of the vendor's header.  TLC's integers are 32-bit signed, so the
\* all-ones u32 (UINT32_MAX) is written -1; only equality and the test
\* against zero are ever applied to an id.
ROC_NIX_TM_NODE_ID_INVALID == -1
ROC_NIX_TM_SHAPER_PROFILE_NONE == -1
ROC_TM_LVL_ROOT == 0

NodeIds == 0..MaxNodeId
ShaperIds == {1}
CallerLvls == {ROC_TM_LVL_ROOT, LeafLvl + 1}
Priorities == {0}
Weights == {1}

---------------------------------------------------------------------------
\* 64-bit unsigned values, as four 16-bit limbs, least significant first.
LimbBase == 2^16

U64Small(n) == <<n, 0, 0, 0>>

U64Pow61 == <<0, 0, 0, 2^13>>

U64Max == <<LimbBase - 1, LimbBase - 1, LimbBase - 1, LimbBase - 1>>

\* x * k as the five-limb mathematical product (k < 2^15).
MulExact(x, k) ==
  LET t1 == x[1] * k
      t2 == x[2] * k + (t1 \div LimbBase)
      t3 == x[3] * k + (t2 \div LimbBase)
      t4 == x[4] * k + (t3 \div LimbBase)
  IN  <<t1 % LimbBase, t2 % LimbBase, t3 % LimbBase, t4 % LimbBase, t4 \div LimbBase>>

Widen(x) == <<x[1], x[2], x[3], x[4], 0>>

\* `field *= 8` on a uint64_t: the product modulo 2^64.
MulAssign8(x) == SubSeq(MulExact(x, 8), 1, 4)

---------------------------------------------------------------------------
\* oct_roc_err: log, and return VNET_DEV_ERR_INTERNAL whatever rc is.
oct_roc_err(rc, msg) == [ret |-> "VNET_DEV_ERR_INTERNAL", rc |-> rc, msg |-> msg]

Ok == [ret |-> "0", rc |-> "0", msg |-> ""]

---------------------------------------------------------------------------
\* The vendor layer: its registry and what it answers.  vendor_ok is the
\* vendor's verdict on everything the core cannot see (hardware, mailbox,
\* parameter ranges).

roc_nix_tm_is_user_hierarchy_enabled(ena) == ena

\* A lookup yields a pointer or NULL: a set of at most one descriptor.
roc_nix_tm_node_get(ns, id) == IF id \in DOMAIN ns THEN {ns[id]} ELSE {}

roc_nix_tm_shaper_profile_get(ps, id) == IF id \in DOMAIN ps THEN {ps[id]} ELSE {}

roc_nix_tm_lvl_is_leaf(lvl) == lvl = LeafLvl

roc_nix_tm_leaf_cnt(ns) ==
  Cardinality({i \in DOMAIN ns : roc_nix_tm_lvl_is_leaf(ns[i].lvl)})

\* Node ids are unique per port and no level lies below the leaf level.
roc_nix_tm_node_add_rc(ns, tm_node, vendor_ok) ==
  IF vendor_ok /\ tm_node.id \notin DOMAIN ns /\ tm_node.lvl <= LeafLvl
  THEN "0" ELSE "vendor"

roc_nix_tm_node_add(ns, tm_node) ==
  [i \in DOMAIN ns \cup {tm_node.id} |-> IF i = tm_node.id THEN tm_node ELSE ns[i]]

roc_nix_tm_node_delete_rc(ns, id, vendor_ok) ==
  IF vendor_ok /\ id \in DOMAIN ns THEN "0" ELSE "vendor"

roc_nix_tm_node_delete(ns, id) == [i \in DOMAIN ns \ {id} |-> ns[i]]

roc_nix_tm_shaper_profile_add_rc(ps, profile, vendor_ok) ==
  IF vendor_ok /\ profile.id \notin DOMAIN ps THEN "0" ELSE "vendor"

roc_nix_tm_shaper_profile_add(ps, profile) ==
  [i \in DOMAIN ps \cup {profile.id} |-> IF i = profile.id THEN profile ELSE ps[i]]

\* The vendor refuses to delete a profile some node still references.
roc_nix_tm_shaper_profile_delete_rc(ns, ps, id, vendor_ok) ==
  IF /\ vendor_ok
     /\ id \in DOMAIN ps
     /\ \A i \in DOMAIN ns : ns[i].shaper_profile_id # id
  THEN "0" ELSE "vendor"

roc_nix_tm_shaper_profile_delete(ps, id) == [i \in DOMAIN ps \ {id} |-> ps[i]]

roc_nix_tm_node_shaper_update_rc(ns, ps, node_id, profile_id, vendor_ok) ==
  IF /\ vendor_ok
     /\ node_id \in DOMAIN ns
     /\ (profile_id \in DOMAIN ps \/ profile_id = ROC_NIX_TM_SHAPER_PROFILE_NONE)
  THEN "0" ELSE "vendor"

roc_nix_tm_node_shaper_update(ns, node_id, profile_id) ==
  [ns EXCEPT ![node_id].shaper_profile_id = profile_id]

\* Selects the node's congestion-marking algorithm inside the vendor layer;
\* nothing the registry shows changes.
roc_nix_tm_shaper_default_red_algo(node, profile) == node

\* A failed disable or enable leaves the flag as it was.
roc_nix_tm_hierarchy_disable(ena, vendor_ok, flag_cleared) ==
  IF vendor_ok \/ flag_cleared THEN FALSE ELSE ena

roc_nix_tm_hierarchy_enable(ena, vendor_ok) == IF vendor_ok THEN TRUE ELSE ena

---------------------------------------------------------------------------
\* What one facade call yields: the return value, the registry after it, the
\* descriptors the core allocated and freed itself, those the vendor freed
\* through free_fn, the descriptor handed to the vendor's add, the vendor
\* calls made in order, and the caller's stats structure.
ZeroStats == [n_pkts |-> 0, n_bytes |-> 0, n_pkts_dropped_red |-> 0, n_bytes_dropped_red |-> 0]

St == [tm_ena |-> tm_ena, nodes |-> nodes, profiles |-> profiles]

Result(st, ret, vcalls) ==
  [ret |-> ret, tm_ena |-> st.tm_ena, nodes |-> st.nodes, profiles |-> st.profiles,
   alloc |-> 0, freed |-> 0, vfreed |-> 0, handed |-> {}, vcalls |-> vcalls,
   stats |-> ZeroStats]

---------------------------------------------------------------------------
\* oct_tm_sys_node_add

\* Faulty variant: node_add without the check for a committed hierarchy.
node_add_dynamic_update_unchecked(ena) == FALSE

\* "We don't support dynamic updates"
node_add_dynamic_update(ena) == roc_nix_tm_is_user_hierarchy_enabled(ena)

\* if (parent_node_id) parent_node = roc_nix_tm_node_get (nix, parent_node_id);
node_add_parent_node(ns, parent_node_id) ==
  IF parent_node_id # 0 THEN roc_nix_tm_node_get(ns, parent_node_id) ELSE {}

node_add_parent_vcalls(parent_node_id) ==
  IF parent_node_id # 0 THEN <<"roc_nix_tm_node_get">> ELSE <<>>

\* Faulty variant: the parent's level is taken over without the + 1.
node_add_find_level_same(lvl, parent_node, parent_node_id) ==
  IF lvl # ROC_TM_LVL_ROOT /\ parent_node # {}
  THEN {(CHOOSE pn \in parent_node : TRUE).lvl}
  ELSE IF parent_node_id = ROC_NIX_TM_NODE_ID_INVALID
       THEN {ROC_TM_LVL_ROOT}
       ELSE {}

\* Faulty variant: a caller level of ROOT makes a root node whatever the parent id.
node_add_find_level_root_wins(lvl, parent_node, parent_node_id) ==
  IF lvl # ROC_TM_LVL_ROOT /\ parent_node # {}
  THEN {(CHOOSE pn \in parent_node : TRUE).lvl + 1}
  ELSE IF parent_node_id = ROC_NIX_TM_NODE_ID_INVALID \/ lvl = ROC_TM_LVL_ROOT
       THEN {ROC_TM_LVL_ROOT}
       ELSE {}

\* "Find the right level": the level, or none ("Neither proper parent nor
\* proper level id given").
node_add_find_level(lvl, parent_node, parent_node_id) ==
  IF lvl # ROC_TM_LVL_ROOT /\ parent_node # {}
  THEN {(CHOOSE pn \in parent_node : TRUE).lvl + 1}
  ELSE IF parent_node_id = ROC_NIX_TM_NODE_ID_INVALID
       THEN {ROC_TM_LVL_ROOT}
       ELSE {}

\* The zeroed descriptor, populated.
node_add_tm_node(a, lvl) ==
  [id |-> a.node_id, parent_id |-> a.parent_id, lvl |-> lvl,
   priority |-> a.priority, weight |-> a.weight,
   shaper_profile_id |-> a.shaper_id, free_fn |-> "plt_free"]

\* Faulty variant: the descriptor is not freed when the vendor rejects it.
node_add_rejected_leak(st, rc, tm_node, vcalls) ==
  [Result(st, oct_roc_err(rc, "roc_nix_tm_node_add_err"), vcalls)
     EXCEPT !.alloc = 1, !.handed = {tm_node}]

\* if (rc < 0): plt_free (tm_node) and the error.
node_add_rejected(st, rc, tm_node, vcalls) ==
  [Result(st, oct_roc_err(rc, "roc_nix_tm_node_add_err"), vcalls)
     EXCEPT !.alloc = 1, !.freed = 1, !.handed = {tm_node}]

node_add_run(st, a, e) ==
  LET parent_node == node_add_parent_node(st.nodes, a.parent_id)
      level == node_add_find_level(a.lvl, parent_node, a.parent_id)
      tm_node == node_add_tm_node(a, CHOOSE l \in level : TRUE)
      profile == roc_nix_tm_shaper_profile_get(st.profiles, a.shaper_id)
      rc == roc_nix_tm_node_add_rc(st.nodes, tm_node, e.vendor_ok)
      v1 == <<"roc_nix_tm_is_user_hierarchy_enabled">>
      v2 == v1 \o node_add_parent_vcalls(a.parent_id)
      v3 == v2 \o <<"roc_nix_tm_shaper_profile_get", "roc_nix_tm_node_add">>
  IN
  IF node_add_dynamic_update(st.tm_ena)
  THEN Result(st, oct_roc_err("-ERANGE", "roc_nix_tm_dynamic update not supported"), v1)
  ELSE IF level = {}
  THEN Result(st, oct_roc_err("-ERANGE", "roc_nix_tm_invalid_parent-id_err"), v2)
  ELSE IF ~e.alloc_ok
  THEN Result(st, oct_roc_err("-ENOMEM", "oct_nix_tm_node_alloc_failed"), v2)
  ELSE IF rc # "0"
  THEN node_add_rejected(st, rc, tm_node, v3)
  ELSE [Result(st, Ok, v3 \o <<"roc_nix_tm_shaper_default_red_algo">>)
          EXCEPT !.alloc = 1, !.handed = {tm_node},
                 !.nodes = roc_nix_tm_node_add(st.nodes,
                             roc_nix_tm_shaper_default_red_algo(tm_node, profile))]

---------------------------------------------------------------------------
\* oct_tm_sys_node_delete

node_delete_dynamic_update(ena) == roc_nix_tm_is_user_hierarchy_enabled(ena)

\* Faulty variant: node_delete without the test for the INVALID id.
node_delete_invalid_id_unchecked(node_id) == FALSE

node_delete_invalid_id(node_id) == node_id = ROC_NIX_TM_NODE_ID_INVALID

node_delete_run(st, a, e) ==
  LET tm_node == roc_nix_tm_node_get(st.nodes, a.node_id)
      id == (CHOOSE n \in tm_node : TRUE).id
      rc == roc_nix_tm_node_delete_rc(st.nodes, id, e.vendor_ok)
      v1 == <<"roc_nix_tm_is_user_hierarchy_enabled">>
      v2 == v1 \o <<"roc_nix_tm_node_get">>
      v3 == v2 \o <<"roc_nix_tm_node_delete">>
  IN
  IF node_delete_dynamic_update(st.tm_ena)
  THEN Result(st, oct_roc_err("-ERANGE", "roc_nix_tm_dynamic update not supported"), v1)
  ELSE IF node_delete_invalid_id(a.node_id)
  THEN Result(st, oct_roc_err("-EINVAL", "oct_tm_node_delete_invalid_node-id"), v1)
  ELSE IF tm_node = {}
  THEN Result(st, oct_roc_err("-EINVAL", "oct_tm_node_delete  node-id not found"), v2)
  ELSE IF rc # "0"
  THEN Result(st, oct_roc_err(rc, "roc_nix_tm_delete_failed"), v3)
  ELSE [Result(st, Ok, v3)
          EXCEPT !.vfreed = 1, !.nodes = roc_nix_tm_node_delete(st.nodes, id)]

---------------------------------------------------------------------------
\* oct_tm_sys_shaper_profile_create

\* The zeroed descriptor, populated; "If Byte mode, then convert to bps".
shaper_profile_fill(shaper_id, params) ==
  LET byte_mode == params.pkt_mode = 0
      conv(x) == IF byte_mode THEN MulAssign8(x) ELSE x
  IN  [id |-> shaper_id,
       commit_rate |-> conv(params.commit_rate),
       commit_sz |-> conv(params.commit_burst_size),
       peak_rate |-> conv(params.peak_rate),
       peak_sz |-> conv(params.peak_burst_size),
       pkt_len_adj |-> params.pkt_len_adj,
       pkt_mode |-> params.pkt_mode,
       free_fn |-> "plt_free"]

\* Faulty variant: create without the check for a registered shaper id.
shaper_profile_exists_unchecked(ps, shaper_id) == FALSE

shaper_profile_exists(ps, shaper_id) ==
  roc_nix_tm_shaper_profile_get(ps, shaper_id) # {}

\* Faulty variant: the descriptor is not freed when the vendor rejects it.
shaper_profile_create_rejected_leak(st, rc, profile, vcalls) ==
  [Result(st, oct_roc_err(rc, "roc_nix_tm_shaper_creation_failed"), vcalls)
     EXCEPT !.alloc = 1, !.handed = {profile}]

\* "Fill error information based on return value": plt_free and the error.
shaper_profile_create_rejected(st, rc, profile, vcalls) ==
  [Result(st, oct_roc_err(rc, "roc_nix_tm_shaper_creation_failed"), vcalls)
     EXCEPT !.alloc = 1, !.freed = 1, !.handed = {profile}]

shaper_profile_create_run(st, a, e) ==
  LET profile == shaper_profile_fill(a.shaper_id, a.params)
      rc == roc_nix_tm_shaper_profile_add_rc(st.profiles, profile, e.vendor_ok)
      v1 == <<"roc_nix_tm_shaper_profile_get">>
      v2 == v1 \o <<"roc_nix_tm_shaper_profile_add">>
  IN
  IF shaper_profile_exists(st.profiles, a.shaper_id)
  THEN Result(st, oct_roc_err("-EINVAL", "oct_nix_tm_shaper_exists"), v1)
  ELSE IF ~e.alloc_ok
  THEN Result(st, oct_roc_err("-ENOMEM", "oct_nix_tm_shaper_create_alloc_failed"), v1)
  ELSE IF rc # "0"
  THEN shaper_profile_create_rejected(st, rc, profile, v2)
  ELSE [Result(st, Ok, v2)
          EXCEPT !.alloc = 1, !.handed = {profile},
                 !.profiles = roc_nix_tm_shaper_profile_add(st.profiles, profile)]

---------------------------------------------------------------------------
\* oct_tm_sys_node_shaper_update

\* Faulty variant: the node is re-resolved under the wrong id and not found.
node_shaper_update_node_lost(ns, node_id) == {}

\* node = roc_nix_tm_node_get (nix, node_id), after the vendor's update.
node_shaper_update_node(ns, node_id) == roc_nix_tm_node_get(ns, node_id)

node_shaper_update_run(st, a, e) ==
  LET rc == roc_nix_tm_node_shaper_update_rc(st.nodes, st.profiles, a.node_id,
                                             a.shaper_id, e.vendor_ok)
      ns == roc_nix_tm_node_shaper_update(st.nodes, a.node_id, a.shaper_id)
      node == node_shaper_update_node(ns, a.node_id)
      profile == roc_nix_tm_shaper_profile_get(st.profiles, a.shaper_id)
      v1 == <<"roc_nix_tm_node_shaper_update">>
      v2 == v1 \o <<"roc_nix_tm_node_get">>
      v3 == v2 \o <<"roc_nix_tm_shaper_profile_get", "roc_nix_tm_shaper_default_red_algo">>
  IN
  IF rc # "0"
  THEN Result(st, oct_roc_err(rc, "oct_nix_tm_node_shaper_update_failed"), v1)
  ELSE IF node = {}
  THEN [Result(st, oct_roc_err("-EINVAL", "oct_nix_tm_node_shaper_update_node_failure"), v2)
          EXCEPT !.nodes = ns]
  ELSE [Result(st, Ok, v3)
          EXCEPT !.nodes = [ns EXCEPT ![a.node_id] =
                   roc_nix_tm_shaper_default_red_algo(CHOOSE n \in node : TRUE, profile)]]

---------------------------------------------------------------------------
\* oct_tm_sys_shaper_profile_delete

shaper_profile_delete_run(st, a, e) ==
  LET rc == roc_nix_tm_shaper_profile_delete_rc(st.nodes, st.profiles, a.shaper_id,
                                                e.vendor_ok)
      v1 == <<"roc_nix_tm_shaper_profile_delete">>
  IN
  IF rc # "0"
  THEN Result(st, oct_roc_err(rc, "roc_nix_tm_shaper_delete_failed"), v1)
  ELSE [Result(st, Ok, v1)
          EXCEPT !.vfreed = 1,
                 !.profiles = roc_nix_tm_shaper_profile_delete(st.profiles, a.shaper_id)]

---------------------------------------------------------------------------
\* oct_tm_sys_node_read_stats

\* What the two statistics channels report.
qstats == [tx_pkts |-> 5, tx_octs |-> 6]

nix_tm_stats == [pkts_dropped |-> 7, bytes_dropped |-> 8]

\* Faulty variant: a missing node is reported as an error.
node_read_stats_not_found_err(st, a, vcalls) ==
  [Result(st, oct_roc_err("-EINVAL", "tm_node_read_stats_err"), vcalls)
     EXCEPT !.stats = a.stats]

\* if (!node) goto exit, with rc still 0: return rc.
node_read_stats_not_found(st, a, vcalls) ==
  [Result(st, Ok, vcalls) EXCEPT !.stats = a.stats]

node_read_stats_run(st, a, e) ==
  LET node == roc_nix_tm_node_get(st.nodes, a.node_id)
      n == CHOOSE x \in node : TRUE
      rc == IF e.vendor_ok THEN "0" ELSE "vendor"
      v1 == <<"roc_nix_tm_node_get">>
      v2 == v1 \o <<"roc_nix_tm_lvl_is_leaf">>
  IN
  IF node = {}
  THEN node_read_stats_not_found(st, a, v1)
  ELSE IF roc_nix_tm_lvl_is_leaf(n.lvl)
  THEN IF rc = "0"
       THEN [Result(st, Ok, v2 \o <<"roc_nix_stats_queue_get">>)
               EXCEPT !.stats = [a.stats EXCEPT !.n_pkts = qstats.tx_pkts,
                                                !.n_bytes = qstats.tx_octs]]
       ELSE [Result(st, oct_roc_err(rc, "tm_node_read_stats_err"),
                    v2 \o <<"roc_nix_stats_queue_get">>)
               EXCEPT !.stats = a.stats]
  ELSE IF rc = "0"
       THEN [Result(st, Ok, v2 \o <<"roc_nix_tm_node_stats_get">>)
               EXCEPT !.stats = [a.stats EXCEPT
                        !.n_pkts_dropped_red = nix_tm_stats.pkts_dropped,
                        !.n_bytes_dropped_red = nix_tm_stats.bytes_dropped]]
       ELSE [Result(st, oct_roc_err(rc, "tm_node_read_stats_err"),
                    v2 \o <<"roc_nix_tm_node_stats_get">>)
               EXCEPT !.stats = a.stats]

---------------------------------------------------------------------------
\* oct_tm_sys_start

\* Faulty variant: start without the check for an existing user hierarchy.
start_hierarchy_exists_unchecked(ena) == FALSE

start_hierarchy_exists(ena) == roc_nix_tm_is_user_hierarchy_enabled(ena)

\* Faulty variant: start without the leaf-count check.
start_incomplete_hierarchy_unchecked(ns, ntxq) == FALSE

\* Faulty variant: <= for <.
start_incomplete_hierarchy_le(ns, ntxq) == roc_nix_tm_leaf_cnt(ns) <= ntxq

start_incomplete_hierarchy(ns, ntxq) == roc_nix_tm_leaf_cnt(ns) < ntxq

\* e.vendor_ok is the vendor's verdict on the disable, e.vendor_ok2 on the enable.
start_run(st, ntxq, e) ==
  LET v1 == <<"roc_nix_tm_is_user_hierarchy_enabled">>
      v2 == v1 \o <<"roc_nix_tm_leaf_cnt">>
      v3 == v2 \o <<"roc_nix_tm_hierarchy_disable">>
      v4 == v3 \o <<"roc_nix_tm_hierarchy_enable">>
      dis == roc_nix_tm_hierarchy_disable(st.tm_ena, e.vendor_ok, e.flag_cleared)
  IN
  IF start_hierarchy_exists(st.tm_ena)
  THEN Result(st, oct_roc_err("-EIO", "oct_nix_tm_hirearchy_exists"), v1)
  ELSE IF start_incomplete_hierarchy(st.nodes, ntxq)
  THEN Result(st, oct_roc_err("-EINVAL", "oct_nix_tm_incomplete hierarchy"), v2)
  ELSE IF ~e.vendor_ok
  THEN [Result(st, oct_roc_err("vendor", "oct_nix_tm_hirearchy_exists"), v3)
          EXCEPT !.tm_ena = dis]
  ELSE IF ~e.vendor_ok2
  THEN [Result(st, oct_roc_err("vendor", "oct_nix_tm_hierarchy_enabled_failed"), v4)
          EXCEPT !.tm_ena = roc_nix_tm_hierarchy_enable(dis, FALSE)]
  ELSE [Result(st, Ok, v4) EXCEPT !.tm_ena = roc_nix_tm_hierarchy_enable(dis, TRUE)]

---------------------------------------------------------------------------
\* oct_tm_sys_stop

\* Faulty variant: stop returns 0 without disabling anything.
stop_run_no_disable(st, e) == Result(st, Ok, <<>>)

stop_run(st, e) ==
  LET v1 == <<"roc_nix_tm_hierarchy_disable">>
      dis == roc_nix_tm_hierarchy_disable(st.tm_ena, e.vendor_ok, e.flag_cleared)
  IN
  IF ~e.vendor_ok
  THEN [Result(st, oct_roc_err("-EIO", "oct_nix_tm_stop_failed"), v1) EXCEPT !.tm_ena = dis]
  ELSE [Result(st, Ok, v1) EXCEPT !.tm_ena = dis]

---------------------------------------------------------------------------
\* The callers' inputs.

PktModeParams ==
  [commit_rate |-> U64Small(1000), commit_burst_size |-> U64Small(2000),
   peak_rate |-> U64Small(1500), peak_burst_size |-> U64Small(3000),
   pkt_len_adj |-> 0, pkt_mode |-> 1]

\* 2^61 - 1 is the largest value whose eightfold fits 64 bits.
U64Pow61Less1 == <<LimbBase - 1, LimbBase - 1, LimbBase - 1, 2^13 - 1>>

ByteModeParams ==
  [commit_rate |-> U64Small(100), commit_burst_size |-> U64Pow61Less1,
   peak_rate |-> U64Pow61, peak_burst_size |-> U64Max,
   pkt_len_adj |-> -4, pkt_mode |-> 0]

ShaperParams == {PktModeParams, ByteModeParams}

NoParams ==
  [commit_rate |-> U64Small(0), commit_burst_size |-> U64Small(0),
   peak_rate |-> U64Small(0), peak_burst_size |-> U64Small(0),
   pkt_len_adj |-> 0, pkt_mode |-> 0]

JunkStats == [n_pkts |-> 9, n_bytes |-> 9, n_pkts_dropped_red |-> 9, n_bytes_dropped_red |-> 9]

StatsIn == {ZeroStats, JunkStats}

NoArgs ==
  [node_id |-> 0, parent_id |-> 0, priority |-> 0, weight |-> 0, lvl |-> 0,
   shaper_id |-> 0, params |-> NoParams, stats |-> ZeroStats]

Env(alloc_ok, vendor_ok, vendor_ok2) ==
  [alloc_ok |-> alloc_ok, vendor_ok |-> vendor_ok, vendor_ok2 |-> vendor_ok2,
   flag_cleared |-> FALSE]

\* What the environment may do to a call: nothing, refuse the allocation, or
\* have the vendor refuse (vendor_ok), for start also the enable (vendor_ok2).
AllocEnvs == {Env(TRUE, TRUE, TRUE), Env(FALSE, TRUE, TRUE), Env(TRUE, FALSE, TRUE)}

VendorEnvs == {Env(TRUE, TRUE, TRUE), Env(TRUE, FALSE, TRUE)}

\* A disable that fails leaves the port indeterminate: the hierarchy flag is
\* either as it was or cleared.
StopEnvs == VendorEnvs \cup {[Env(TRUE, FALSE, TRUE) EXCEPT !.flag_cleared = TRUE]}

StartEnvs == {Env(TRUE, TRUE, TRUE), Env(TRUE, FALSE, TRUE), Env(TRUE, TRUE, FALSE)}

NodeAddArgsOf(node_ids, parent_ids, shaper_ids) ==
  {a \in
     {[NoArgs EXCEPT !.node_id = node_id, !.parent_id = parent_id,
                     !.priority = priority, !.weight = weight, !.lvl = lvl,
                     !.shaper_id = shaper_id] :
        node_id \in node_ids, parent_id \in DOMAIN parent_ids,
        priority \in Priorities, weight \in Weights, lvl \in CallerLvls,
        shaper_id \in shaper_ids} :
     a.node_id \in parent_ids[a.parent_id]}

NodeDeleteArgsOf(node_ids) ==
  {[NoArgs EXCEPT !.node_id = node_id] :
     node_id \in node_ids \cup {ROC_NIX_TM_NODE_ID_INVALID}}

ShaperCreateArgsOf(shaper_ids) ==
  {[NoArgs EXCEPT !.shaper_id = shaper_id, !.params = params] :
     shaper_id \in shaper_ids, params \in ShaperParams}

ShaperUpdateArgsOf(node_ids, shaper_ids) ==
  {[NoArgs EXCEPT !.node_id = node_id, !.shaper_id = profile_id] :
     node_id \in node_ids, profile_id \in shaper_ids}

ShaperDeleteArgsOf(shaper_ids) ==
  {[NoArgs EXCEPT !.shaper_id = shaper_id] : shaper_id \in shaper_ids}

ReadStatsArgsOf(node_ids) ==
  {[NoArgs EXCEPT !.node_id = node_id, !.stats = stats] :
     node_id \in node_ids, stats \in StatsIn}

\* Every input of the model: what the claims quantify over.  AnyParent maps
\* each parent id to the node ids that may be added under it.
AnyParent == [p \in NodeIds \cup {ROC_NIX_TM_NODE_ID_INVALID} |-> NodeIds]

BindIds == ShaperIds \cup {ROC_NIX_TM_SHAPER_PROFILE_NONE}

NodeAddArgs == NodeAddArgsOf(NodeIds, AnyParent, BindIds)

NodeDeleteArgs == NodeDeleteArgsOf(NodeIds)

ShaperCreateArgs == ShaperCreateArgsOf(ShaperIds)

ShaperUpdateArgs == ShaperUpdateArgsOf(NodeIds, BindIds)

ShaperDeleteArgs == ShaperDeleteArgsOf(ShaperIds)

ReadStatsArgs == ReadStatsArgsOf(NodeIds)

\* The upstream dataplane of one port leaves the highest node id unused and
\* numbers a node below its parent.  It either builds any such hierarchy and
\* attaches no shaper, or builds a chain (node i under node i + 1, any node as
\* a root) and manages shapers on it.
CallerIds == 0..(MaxNodeId - 1)

ParentAbove ==
  [p \in CallerIds \cup {ROC_NIX_TM_NODE_ID_INVALID} |->
     IF p = ROC_NIX_TM_NODE_ID_INVALID THEN CallerIds ELSE {n \in CallerIds : n < p}]

PlainCaller ==
  [node_ids |-> CallerIds, parent_ids |-> ParentAbove,
   bind_ids |-> {ROC_NIX_TM_SHAPER_PROFILE_NONE}, rebind_ids |-> {},
   shaper_ids |-> {}]

ChainIds == 0..(MaxNodeId - 2)

ChainParent ==
  [p \in ChainIds \cup {ROC_NIX_TM_NODE_ID_INVALID} |->
     IF p = ROC_NIX_TM_NODE_ID_INVALID THEN ChainIds ELSE {p - 1} \cap ChainIds]

ShapingCaller ==
  [node_ids |-> ChainIds, parent_ids |-> ChainParent,
   bind_ids |-> BindIds, rebind_ids |-> BindIds, shaper_ids |-> ShaperIds]

Callers == {PlainCaller, ShapingCaller}

EmptyRegistry == [i \in {} |-> 0]

---------------------------------------------------------------------------
\* Observers of the call history.

\* When a stop is directly followed by a stop or a start: what that first
\* stop returned.
NextPrevStop(op) ==
  IF last.op = "stop_tm" /\ op \in {"stop_tm", "start_tm"} THEN last.ret.ret ELSE "-"

\* When a shaper_profile_create is directly followed by another: the message
\* of the first.
NextPrevCreate(op) ==
  IF last.op = "shaper_profile_create" /\ op = "shaper_profile_create"
  THEN last.ret.msg ELSE "-"

\* The descriptors on the heap after a call that allocated, freed and had the
\* vendor free what r says; the count saturates at LiveCap.
LiveCap == Cardinality(NodeIds) + Cardinality(ShaperIds) + 1

NextLive(r) ==
  LET n == live + r.alloc - r.freed - r.vfreed
  IN  IF n > LiveCap THEN LiveCap ELSE IF n < -1 THEN -1 ELSE n

\* No call in progress: each context is between two calls, no descriptor has
\* been freed under a pointer, no freed descriptor has been read.
RaceIdle ==
  [s_pc |-> "idle", s_id |-> 0, s_node |-> {},
   d_pc |-> "idle", d_id |-> 0, d_node |-> {},
   freed |-> {}, uaf |-> FALSE]

\* The ids whose registration differs between two registries.
Changed(old, new) ==
  {i \in DOMAIN old \cup DOMAIN new :
     \/ i \notin DOMAIN old
     \/ i \notin DOMAIN new
     \/ old[i] # new[i]}

\* The facade call op(a) ran in the current state and yielded r.
Call(op, a, r) ==
  /\ tm_ena' = r.tm_ena
  /\ nodes' = r.nodes
  /\ profiles' = r.profiles
  /\ last' = [op |-> op, ret |-> r.ret, params |-> a.params, stats |-> r.stats,
              nodes_changed |-> Changed(nodes, r.nodes),
              profiles_changed |-> Changed(profiles, r.profiles)]
  /\ prev_stop' = NextPrevStop(op)
  /\ prev_create' = NextPrevCreate(op)
  /\ live' = NextLive(r)
  /\ UNCHANGED <<num_tx_queues, caller, race>>

---------------------------------------------------------------------------
Init ==
  /\ tm_ena = FALSE
  /\ nodes = EmptyRegistry
  /\ profiles = EmptyRegistry
  /\ num_tx_queues = NumTxQueues
  /\ caller \in Callers
  /\ last = [op |-> "init", ret |-> Ok, params |-> NoParams, stats |-> ZeroStats,
             nodes_changed |-> {}, profiles_changed |-> {}]
  /\ prev_stop = "-"
  /\ prev_create = "-"
  /\ live = 0
  /\ race = RaceIdle

oct_tm_sys_node_add ==
  \E a \in NodeAddArgsOf(caller.node_ids, caller.parent_ids, caller.bind_ids),
     e \in AllocEnvs :
    Call("node_add", a, node_add_run(St, a, e))

oct_tm_sys_node_delete ==
  \E a \in NodeDeleteArgsOf(caller.node_ids), e \in VendorEnvs :
    Call("node_delete", a, node_delete_run(St, a, e))

oct_tm_sys_shaper_profile_create ==
  \E a \in ShaperCreateArgsOf(caller.shaper_ids), e \in AllocEnvs :
    Call("shaper_profile_create", a, shaper_profile_create_run(St, a, e))

oct_tm_sys_node_shaper_update ==
  \E a \in ShaperUpdateArgsOf(caller.node_ids, caller.rebind_ids), e \in VendorEnvs :
    Call("node_shaper_update", a, node_shaper_update_run(St, a, e))

oct_tm_sys_shaper_profile_delete ==
  \E a \in ShaperDeleteArgsOf(caller.shaper_ids), e \in VendorEnvs :
    Call("shaper_profile_delete", a, shaper_profile_delete_run(St, a, e))

oct_tm_sys_node_read_stats ==
  \E a \in ReadStatsArgsOf(caller.node_ids), e \in VendorEnvs :
    Call("node_read_stats", a, node_read_stats_run(St, a, e))

oct_tm_sys_start ==
  \E e \in StartEnvs :
    Call("start_tm", NoArgs, start_run(St, num_tx_queues, e))

oct_tm_sys_stop ==
  \E e \in StopEnvs :
    Call("stop_tm", NoArgs, stop_run(St, e))

\* dev_oct_tm_ops: the eight operations the upstream dataplane may call, in
\* any order.
Next ==
  \/ oct_tm_sys_node_add
  \/ oct_tm_sys_node_delete
  \/ oct_tm_sys_node_read_stats
  \/ oct_tm_sys_shaper_profile_create
  \/ oct_tm_sys_node_shaper_update
  \/ oct_tm_sys_shaper_profile_delete
  \/ oct_tm_sys_start
  \/ oct_tm_sys_stop

Spec == Init /\ [][Next]_vars

\* The port a call leaves behind.
StOf(r) == [tm_ena |-> r.tm_ena, nodes |-> r.nodes, profiles |-> r.profiles]

\* Every allocation and every vendor call succeeds.
EnvOk == Env(TRUE, TRUE, TRUE)

---------------------------------------------------------------------------
\* node_read_stats and node_delete called from two contexts on an uncommitted
\* port, interleaved between their vendor calls.  A pointer to a descriptor
\* is the set holding its id, NULL the empty set; race.freed holds the ids
\* whose descriptor the vendor has freed.

RECURSIVE RaceChain(_)
\* The port after the node_add calls that build a chain from the root, node
\* LeafLvl, down to node k; node 0 is the leaf.
RaceChain(k) ==
  IF k > LeafLvl
  THEN [tm_ena |-> FALSE, nodes |-> EmptyRegistry, profiles |-> EmptyRegistry]
  ELSE LET a == [NoArgs EXCEPT
                   !.node_id = k,
                   !.parent_id = IF k = LeafLvl THEN ROC_NIX_TM_NODE_ID_INVALID ELSE k + 1,
                   !.lvl = IF k = LeafLvl THEN ROC_TM_LVL_ROOT ELSE LeafLvl + 1,
                   !.weight = 1,
                   !.shaper_id = ROC_NIX_TM_SHAPER_PROFILE_NONE]
       IN  StOf(node_add_run(RaceChain(k + 1), a, EnvOk))

RaceInit ==
  /\ tm_ena = FALSE
  /\ nodes = RaceChain(0).nodes
  /\ profiles = EmptyRegistry
  /\ num_tx_queues = NumTxQueues
  /\ caller = PlainCaller
  /\ last = [op |-> "init", ret |-> Ok, params |-> NoParams, stats |-> ZeroStats,
             nodes_changed |-> {}, profiles_changed |-> {}]
  /\ prev_stop = "-"
  /\ prev_create = "-"
  /\ live = Cardinality(DOMAIN nodes)
  /\ race = RaceIdle

RaceFrame == UNCHANGED <<tm_ena, profiles, num_tx_queues, caller, last, prev_stop, prev_create>>

\* The pointer a lookup returns.
RacePtr(ns, id) == {n.id : n \in roc_nix_tm_node_get(ns, id)}

\* node_read_stats is called.
stats_enter ==
  /\ race.s_pc = "idle"
  /\ \E node_id \in caller.node_ids :
       race' = [race EXCEPT !.s_pc = "node_get", !.s_id = node_id, !.s_node = {}]
  /\ RaceFrame /\ UNCHANGED <<nodes, live>>

\* node = roc_nix_tm_node_get (nix, node_id); if (!node) goto exit;
stats_node_get ==
  /\ race.s_pc = "node_get"
  /\ LET node == RacePtr(nodes, race.s_id)
     IN  race' = [race EXCEPT !.s_node = node,
                              !.s_pc = IF node = {} THEN "exit" ELSE "lvl_is_leaf"]
  /\ RaceFrame /\ UNCHANGED <<nodes, live>>

\* if (roc_nix_tm_lvl_is_leaf (nix, node->lvl)): reads node->lvl.  The level
\* read from a freed descriptor is any value.
stats_lvl_is_leaf ==
  /\ race.s_pc = "lvl_is_leaf"
  /\ LET dangling == race.s_node \cap race.freed # {}
     IN  \E lvl \in IF dangling THEN 0..LeafLvl
                    ELSE {nodes[i].lvl : i \in race.s_node} :
           race' = [race EXCEPT
                      !.uaf = race.uaf \/ dangling,
                      !.s_pc = IF roc_nix_tm_lvl_is_leaf(lvl)
                               THEN "stats_queue_get" ELSE "node_stats_get"]
  /\ RaceFrame /\ UNCHANGED <<nodes, live>>

\* rc = roc_nix_stats_queue_get (nix, node->id, 0, &qstats): reads node->id.
stats_queue_get ==
  /\ race.s_pc = "stats_queue_get"
  /\ race' = [race EXCEPT !.uaf = race.uaf \/ (race.s_node \cap race.freed # {}),
                           !.s_pc = "exit"]
  /\ RaceFrame /\ UNCHANGED <<nodes, live>>

\* rc = roc_nix_tm_node_stats_get (nix, node_id, clear, &nix_tm_stats): by id.
stats_node_stats_get ==
  /\ race.s_pc = "node_stats_get"
  /\ race' = [race EXCEPT !.s_pc = "exit"]
  /\ RaceFrame /\ UNCHANGED <<nodes, live>>

\* exit: node_read_stats returns.
stats_exit ==
  /\ race.s_pc = "exit"
  /\ race' = [race EXCEPT !.s_pc = "idle", !.s_node = {}]
  /\ RaceFrame /\ UNCHANGED <<nodes, live>>

\* node_delete is called; the committed check and the INVALID test pass or
\* the call returns.
delete_enter ==
  /\ race.d_pc = "idle"
  /\ \E node_id \in caller.node_ids \cup {ROC_NIX_TM_NODE_ID_INVALID} :
       race' = [race EXCEPT
                  !.d_id = node_id, !.d_node = {},
                  !.d_pc = IF \/ node_delete_dynamic_update(tm_ena)
                              \/ node_delete_invalid_id(node_id)
                           THEN "return" ELSE "node_get"]
  /\ RaceFrame /\ UNCHANGED <<nodes, live>>

\* tm_node = roc_nix_tm_node_get (nix, node_id); if (!tm_node) return.
delete_node_get ==
  /\ race.d_pc = "node_get"
  /\ LET tm_node == RacePtr(nodes, race.d_id)
     IN  race' = [race EXCEPT !.d_node = tm_node,
                              !.d_pc = IF tm_node = {} THEN "return" ELSE "node_delete"]
  /\ RaceFrame /\ UNCHANGED <<nodes, live>>

\* rc = roc_nix_tm_node_delete (nix, tm_node->id, free_node): on success the
\* vendor unregisters the node and frees its descriptor through free_fn.
delete_node_delete ==
  /\ race.d_pc = "node_delete"
  /\ \E e \in VendorEnvs, id \in race.d_node :
       LET rc == roc_nix_tm_node_delete_rc(nodes, id, e.vendor_ok)
       IN  IF rc = "0"
           THEN /\ nodes' = roc_nix_tm_node_delete(nodes, id)
                /\ live' = live - 1
                /\ race' = [race EXCEPT !.freed = race.freed \cup {id}, !.d_pc = "return"]
           ELSE /\ race' = [race EXCEPT !.d_pc = "return"]
                /\ UNCHANGED <<nodes, live>>
  /\ RaceFrame

\* node_delete returns.
delete_return ==
  /\ race.d_pc = "return"
  /\ race' = [race EXCEPT !.d_pc = "idle", !.d_node = {}]
  /\ RaceFrame /\ UNCHANGED <<nodes, live>>

RaceNext ==
  \/ stats_enter
  \/ stats_node_get
  \/ stats_lvl_is_leaf
  \/ stats_queue_get
  \/ stats_node_stats_get
  \/ stats_exit
  \/ delete_enter
  \/ delete_node_get
  \/ delete_node_delete
  \/ delete_return

SpecRace == RaceInit /\ [][RaceNext]_vars

---------------------------------------------------------------------------
\* The claims.  A claim about "every call" is stated of the operation applied,
\* with every input, to every reachable state.

Committed == "roc_nix_tm_dynamic update not supported"

InvalidParent == "roc_nix_tm_invalid_parent-id_err"

IncompleteHierarchy == "oct_nix_tm_incomplete hierarchy"

\* C1: while the user hierarchy is committed, every node_add and every
\* node_delete returns the committed error and leaves the node registry (ids,
\* parents, levels, priorities, weights, shaper bindings) exactly as it was.
C1_CommittedNodesFrozen ==
  tm_ena =>
    /\ \A a \in NodeAddArgs, e \in AllocEnvs :
         LET r == node_add_run(St, a, e)
         IN  r.ret.ret # "0" /\ r.ret.msg = Committed /\ r.nodes = nodes
    /\ \A a \in NodeDeleteArgs, e \in VendorEnvs :
         LET r == node_delete_run(St, a, e)
         IN  r.ret.ret # "0" /\ r.ret.msg = Committed /\ r.nodes = nodes

\* A node_delete was refused on a committed port that holds nodes.
C1_Witness ==
  /\ tm_ena
  /\ nodes # EmptyRegistry
  /\ last.op = "node_delete"
  /\ last.ret.msg = Committed
  /\ last.nodes_changed = {}

\* C2 (as claimed): while the user hierarchy is committed, every
\* shaper_profile_create and every shaper_profile_delete returns the committed
\* error and leaves the set of registered shaper profiles unchanged.
C2_CommittedProfilesFrozen ==
  tm_ena =>
    /\ \A a \in ShaperCreateArgs, e \in AllocEnvs :
         LET r == shaper_profile_create_run(St, a, e)
         IN  r.ret.ret # "0" /\ r.profiles = profiles
    /\ \A a \in ShaperDeleteArgs, e \in VendorEnvs :
         LET r == shaper_profile_delete_run(St, a, e)
         IN  r.ret.ret # "0" /\ r.profiles = profiles

\* C3 (as claimed): a stop that returns 0 on a committed port leaves it
\* UNCOMMITTED; every node_add of an unregistered id with a registered parent
\* above the leaf level and a non-ROOT level, refused while committed, returns
\* 0 when repeated right after that stop; and start then succeeds again (the
\* environment refusing nothing).
C3_StopThenSameNodeAddSucceeds ==
  tm_ena =>
    \A e0 \in StopEnvs :
      LET s == stop_run(St, e0)
      IN  s.ret.ret = "0" =>
            /\ ~s.tm_ena
            /\ \A a \in NodeAddArgs :
                 (/\ a.parent_id \in DOMAIN nodes
                  /\ ~roc_nix_tm_lvl_is_leaf(nodes[a.parent_id].lvl)
                  /\ a.node_id \notin DOMAIN nodes
                  /\ a.lvl # ROC_TM_LVL_ROOT
                  /\ a.shaper_id = ROC_NIX_TM_SHAPER_PROFILE_NONE) =>
                   /\ node_add_run(St, a, EnvOk).ret.msg = Committed
                   /\ node_add_run(StOf(s), a, EnvOk).ret.ret = "0"
            /\ start_run(StOf(s), num_tx_queues, EnvOk).ret.ret = "0"

\* C4: in every reachable state, start fails with the incomplete-hierarchy
\* error if and only if the registry holds fewer leaf nodes than the port has
\* TX queues.
C4_StartPreconditionIffFewLeaves ==
  \A e \in StartEnvs :
    LET r == start_run(St, num_tx_queues, e)
    IN  (r.ret.ret # "0" /\ r.ret.msg = IncompleteHierarchy)
          <=> (roc_nix_tm_leaf_cnt(nodes) < num_tx_queues)

\* A start failed for too few leaves, on a port that holds nodes.
C4_Witness ==
  /\ last.op = "start_tm"
  /\ last.ret.msg = IncompleteHierarchy
  /\ nodes # EmptyRegistry
  /\ roc_nix_tm_leaf_cnt(nodes) < num_tx_queues
  /\ ~tm_ena

\* C5 (as claimed): whenever start returns an error, for whichever reason, the
\* hierarchy is UNCOMMITTED after the call.
C5_FailedStartLeavesUncommitted ==
  \A e \in StartEnvs :
    LET r == start_run(St, num_tx_queues, e)
    IN  r.ret.ret # "0" => ~r.tm_ena

\* C5 (amended): whenever start returns an error the hierarchy is in the state
\* it was in before the call: still COMMITTED when start was refused because a
\* user hierarchy is already committed (-EIO), and UNCOMMITTED in every other
\* case (too few leaves, vendor disable failed, vendor enable failed).
C5_FailedStartKeepsState ==
  \A e \in StartEnvs :
    LET r == start_run(St, num_tx_queues, e)
    IN  r.ret.ret # "0" =>
          /\ r.tm_ena = tm_ena
          /\ r.tm_ena <=> (r.ret.rc = "-EIO")

\* A start was refused on a committed port, which is still committed.
C5_Witness ==
  /\ last.op = "start_tm"
  /\ last.ret.ret # "0"
  /\ last.ret.rc = "-EIO"
  /\ tm_ena

\* C6 (as claimed): from any reachable state, after two consecutive stop calls
\* the port is UNCOMMITTED, whatever the two calls returned, and the second
\* stop changes neither registry.
C6_TwoStopsUncommitted ==
  \A e1 \in StopEnvs, e2 \in StopEnvs :
    LET r1 == stop_run(St, e1)
        r2 == stop_run(StOf(r1), e2)
    IN  ~r2.tm_ena /\ r2.nodes = r1.nodes /\ r2.profiles = r1.profiles

\* C6 (amended): after two consecutive stop calls the port is UNCOMMITTED if it
\* was uncommitted before them or at least one of the two returned 0 (a stop
\* that fails may leave a committed port COMMITTED); neither stop changes the
\* node or shaper registry.
C6_TwoStopsUncommittedIfOneSucceeds ==
  \A e1 \in StopEnvs, e2 \in StopEnvs :
    LET r1 == stop_run(St, e1)
        r2 == stop_run(StOf(r1), e2)
    IN  /\ (~tm_ena \/ r1.ret.ret = "0" \/ r2.ret.ret = "0") => ~r2.tm_ena
        /\ r1.ret.ret = "0" => ~r1.tm_ena
        /\ r1.nodes = nodes /\ r1.profiles = profiles
        /\ r2.nodes = nodes /\ r2.profiles = profiles

\* Two consecutive stops, the first of which disabled the committed hierarchy
\* that held nodes.
C6_Witness ==
  /\ last.op = "stop_tm"
  /\ prev_stop = "0"
  /\ ~tm_ena
  /\ nodes # EmptyRegistry
  /\ roc_nix_tm_leaf_cnt(nodes) >= num_tx_queues

\* C7: on an uncommitted port every node_add that returns 0 registers the node
\* with level parent.level + 1 when parent_id is not INVALID and with level ROOT
\* when it is, whatever level the caller supplied.
C7_LevelDerivedFromParent ==
  ~tm_ena =>
    \A a \in NodeAddArgs, e \in AllocEnvs :
      LET r == node_add_run(St, a, e)
      IN  r.ret.ret = "0" =>
            /\ a.node_id \in DOMAIN r.nodes
            /\ IF a.parent_id # ROC_NIX_TM_NODE_ID_INVALID
               THEN /\ a.parent_id \in DOMAIN nodes
                    /\ r.nodes[a.node_id].lvl = nodes[a.parent_id].lvl + 1
               ELSE r.nodes[a.node_id].lvl = ROC_TM_LVL_ROOT

\* A node_add just registered a node under a registered parent, one level
\* below it, which is not the level any caller supplies.
C7_Witness ==
  /\ last.op = "node_add"
  /\ last.ret.ret = "0"
  /\ \E i \in last.nodes_changed :
       /\ i \in DOMAIN nodes
       /\ nodes[i].parent_id \in DOMAIN nodes
       /\ nodes[i].lvl = nodes[nodes[i].parent_id].lvl + 1
       /\ nodes[i].lvl \notin CallerLvls

\* C8 (as claimed): on an uncommitted port, for every parent_id other than
\* INVALID (0 included) that names a registered node, a node_add with a caller
\* level other than ROOT looks the parent up, is not rejected as
\* invalid-parent, and hands the vendor a node of level parent.level + 1.
C8_RegisteredParentAccepted ==
  ~tm_ena =>
    \A a \in NodeAddArgs :
      (/\ a.parent_id # ROC_NIX_TM_NODE_ID_INVALID
       /\ a.parent_id \in DOMAIN nodes
       /\ a.lvl # ROC_TM_LVL_ROOT) =>
        LET r == node_add_run(St, a, EnvOk)
        IN  /\ \E k \in DOMAIN r.vcalls : r.vcalls[k] = "roc_nix_tm_node_get"
            /\ r.ret.msg # InvalidParent
            /\ \E n \in r.handed : n.lvl = nodes[a.parent_id].lvl + 1

\* C9: on an uncommitted port a node_add whose parent_id is not INVALID is
\* rejected as invalid-parent, allocates nothing, hands the vendor nothing and
\* leaves the node registry unchanged, whenever the parent is not registered or
\* the caller's level is ROOT.
C9_InvalidParentRejected ==
  ~tm_ena =>
    \A a \in NodeAddArgs, e \in AllocEnvs :
      (/\ a.parent_id # ROC_NIX_TM_NODE_ID_INVALID
       /\ (a.parent_id \notin DOMAIN nodes \/ a.lvl = ROC_TM_LVL_ROOT)) =>
        LET r == node_add_run(St, a, e)
        IN  /\ r.ret.ret # "0"
            /\ r.ret.msg = InvalidParent
            /\ r.alloc = 0 /\ r.handed = {}
            /\ \A k \in DOMAIN r.vcalls : r.vcalls[k] # "roc_nix_tm_node_add"
            /\ r.nodes = nodes

\* A node_add was rejected as invalid-parent on an uncommitted port and
\* changed nothing.
C9_Witness ==
  /\ ~tm_ena
  /\ last.op = "node_add"
  /\ last.ret.msg = InvalidParent
  /\ last.nodes_changed = {}

\* C10 (as claimed): every byte-mode shaper_profile_create that returns 0 has
\* registered a profile whose commit_rate, commit_sz, peak_rate and peak_sz are the inputs
\* times 8, without wrap-around modulo 2^64, and whose pkt_len_adj and pkt_mode
\* are the inputs.
C10_ByteModeTimes8Exact ==
  (/\ last.op = "shaper_profile_create"
   /\ last.ret.ret = "0"
   /\ last.params.pkt_mode = 0) =>
    \A i \in last.profiles_changed :
      /\ Widen(profiles[i].commit_rate) = MulExact(last.params.commit_rate, 8)
      /\ Widen(profiles[i].commit_sz) = MulExact(last.params.commit_burst_size, 8)
      /\ Widen(profiles[i].peak_rate) = MulExact(last.params.peak_rate, 8)
      /\ Widen(profiles[i].peak_sz) = MulExact(last.params.peak_burst_size, 8)
      /\ profiles[i].pkt_len_adj = last.params.pkt_len_adj
      /\ profiles[i].pkt_mode = last.params.pkt_mode

ShaperExists == "oct_nix_tm_shaper_exists"

ShaperCreationFailed == "roc_nix_tm_shaper_creation_failed"

\* C11: a shaper_profile_create whose shaper_id is already registered returns
\* the already-exists error, allocates no descriptor, does not call the
\* vendor's add, and leaves the registered profile (the parameters of the
\* first create) as it was.
C11_DuplicateShaperRejected ==
  \A a \in ShaperCreateArgs, e \in AllocEnvs :
    a.shaper_id \in DOMAIN profiles =>
      LET r == shaper_profile_create_run(St, a, e)
      IN  /\ r.ret.ret # "0"
          /\ r.ret.msg = ShaperExists
          /\ r.alloc = 0 /\ r.freed = 0 /\ r.handed = {}
          /\ \A k \in DOMAIN r.vcalls : r.vcalls[k] # "roc_nix_tm_shaper_profile_add"
          /\ r.profiles = profiles
          /\ r.profiles[a.shaper_id] = profiles[a.shaper_id]

\* A second create of a registered id, with other parameters than the first,
\* was refused and the first profile is still the registered one.
C11_Witness ==
  /\ last.op = "shaper_profile_create"
  /\ last.ret.msg = ShaperExists
  /\ last.profiles_changed = {}
  /\ \E i \in DOMAIN profiles :
       /\ profiles[i].pkt_mode # last.params.pkt_mode
       /\ profiles[i] # shaper_profile_fill(i, last.params)

\* C12: when the vendor rejects the registration inside
\* shaper_profile_create, the call returns an error, the descriptor it
\* allocated is freed exactly once, no profile is registered under that id,
\* and a create of the same id right after, which the vendor accepts, returns
\* 0 and registers the profile.
C12_RejectedCreateFreesOnce ==
  \A a \in ShaperCreateArgs :
    LET e == Env(TRUE, FALSE, TRUE)
        r == shaper_profile_create_run(St, a, e)
        again == shaper_profile_create_run(StOf(r), a, EnvOk)
    IN  a.shaper_id \notin DOMAIN profiles =>
          /\ r.ret.ret # "0"
          /\ r.ret.msg = ShaperCreationFailed
          /\ r.alloc = 1 /\ r.freed = 1 /\ r.vfreed = 0
          /\ r.profiles = profiles
          /\ a.shaper_id \notin DOMAIN r.profiles
          /\ again.ret.ret = "0"
          /\ again.alloc = 1 /\ again.freed = 0
          /\ a.shaper_id \in DOMAIN again.profiles
          /\ again.profiles[a.shaper_id] = shaper_profile_fill(a.shaper_id, a.params)

\* A create the vendor rejected, directly followed by a create of the same id
\* that returned 0 and registered the profile.
C12_Witness ==
  /\ last.op = "shaper_profile_create"
  /\ prev_create = ShaperCreationFailed
  /\ last.ret.ret = "0"
  /\ last.profiles_changed # {}
  /\ last.profiles_changed \subseteq DOMAIN profiles

\* C13: on a committed hierarchy a node_shaper_update of a registered node
\* to a registered profile, the vendor refusing nothing, returns 0, leaves the
\* port COMMITTED, changes that node's shaper binding and nothing else of the
\* node registry, and leaves the profile registry as it was; with an
\* unregistered node id it returns an error and changes nothing.
C13_RebindWhileCommitted ==
  /\ tm_ena =>
       \A a \in ShaperUpdateArgs :
         (a.node_id \in DOMAIN nodes /\ a.shaper_id \in DOMAIN profiles) =>
           LET r == node_shaper_update_run(St, a, EnvOk)
           IN  /\ r.ret.ret = "0"
               /\ r.tm_ena
               /\ DOMAIN r.nodes = DOMAIN nodes
               /\ r.nodes = [nodes EXCEPT ![a.node_id].shaper_profile_id = a.shaper_id]
               /\ r.profiles = profiles
  /\ \A a \in ShaperUpdateArgs, e \in VendorEnvs :
       a.node_id \notin DOMAIN nodes =>
         LET r == node_shaper_update_run(St, a, e)
         IN  r.ret.ret # "0" /\ StOf(r) = St

\* A node_shaper_update on the committed port returned 0 and rebound a node
\* to a registered profile.
C13_Witness ==
  /\ tm_ena
  /\ last.op = "node_shaper_update"
  /\ last.ret.ret = "0"
  /\ last.nodes_changed # {}
  /\ last.profiles_changed = {}
  /\ \A i \in last.nodes_changed :
       i \in DOMAIN nodes /\ nodes[i].shaper_profile_id \in DOMAIN profiles

\* C14: node_read_stats for an unregistered node id returns 0, makes no
\* vendor statistics call (only the lookup), and leaves every field of the
\* caller's stats structure, both registries and the hierarchy state as they
\* were, on an uncommitted and on a committed port alike.
C14_ReadStatsUnknownNodeNoOp ==
  \A a \in ReadStatsArgs, e \in VendorEnvs :
    a.node_id \notin DOMAIN nodes =>
      LET r == node_read_stats_run(St, a, e)
      IN  /\ r.ret = Ok
          /\ r.vcalls = <<"roc_nix_tm_node_get">>
          /\ r.stats = a.stats
          /\ StOf(r) = St

\* A node_read_stats on the committed port returned 0 and left the caller's
\* stats structure, which held other values than any counter, untouched: the
\* node was not registered.
C14_Witness ==
  /\ tm_ena
  /\ nodes # EmptyRegistry
  /\ last.op = "node_read_stats"
  /\ last.ret.ret = "0"
  /\ last.stats = JunkStats

InvalidNodeId == "oct_tm_node_delete_invalid_node-id"

NodeNotFound == "oct_tm_node_delete  node-id not found"

\* C15: on an uncommitted port node_delete of INVALID returns the invalid-id
\* error and node_delete of an unregistered id the not-found error, in both
\* cases without a vendor delete and with the node registry unchanged; a
\* node_delete that returns 0 removes exactly the named node, whose descriptor
\* is freed once, through the free callback, and leaves every other node as
\* it was.
C15_NodeDeleteOutcomes ==
  ~tm_ena =>
    \A a \in NodeDeleteArgs, e \in VendorEnvs :
      LET r == node_delete_run(St, a, e)
          no_vendor_delete ==
            \A k \in DOMAIN r.vcalls : r.vcalls[k] # "roc_nix_tm_node_delete"
      IN  /\ a.node_id = ROC_NIX_TM_NODE_ID_INVALID =>
                /\ r.ret.ret # "0" /\ r.ret.msg = InvalidNodeId
                /\ no_vendor_delete /\ r.nodes = nodes /\ r.vfreed = 0
          /\ (a.node_id # ROC_NIX_TM_NODE_ID_INVALID /\ a.node_id \notin DOMAIN nodes) =>
                /\ r.ret.ret # "0" /\ r.ret.msg = NodeNotFound
                /\ no_vendor_delete /\ r.nodes = nodes /\ r.vfreed = 0
          /\ r.ret.ret = "0" =>
                /\ a.node_id \in DOMAIN nodes
                /\ DOMAIN r.nodes = DOMAIN nodes \ {a.node_id}
                /\ \A i \in DOMAIN r.nodes : r.nodes[i] = nodes[i]
                /\ r.vfreed = 1 /\ r.freed = 0

\* A node_delete returned 0 and removed one node of several.
C15_Witness ==
  /\ ~tm_ena
  /\ last.op = "node_delete"
  /\ last.ret.ret = "0"
  /\ Cardinality(last.nodes_changed) = 1
  /\ last.nodes_changed \cap DOMAIN nodes = {}
  /\ nodes # EmptyRegistry

\* C16 (as claimed): in every reachable state every registered node whose
\* parent_id is not INVALID has a registered parent and lies one level below
\* it; no node_delete leaves an orphaned child.
C16_ParentRegisteredOneLevelUp ==
  \A i \in DOMAIN nodes :
    nodes[i].parent_id # ROC_NIX_TM_NODE_ID_INVALID =>
      /\ nodes[i].parent_id \in DOMAIN nodes
      /\ nodes[i].lvl = nodes[nodes[i].parent_id].lvl + 1

NodeAddErr == "roc_nix_tm_node_add_err"

\* A call kept the ownership rule for the descriptor of id in a registry:
\* nothing allocated and nothing freed by the core, or one descriptor
\* allocated that is either registered under id now, and not freed, or freed
\* once by the core and not registered by this call.
OwnedOrFreed(r, before, after, id) ==
  /\ r.alloc \in {0, 1} /\ r.freed \in {0, 1} /\ r.vfreed = 0
  /\ r.alloc = 0 => (r.freed = 0 /\ after = before)
  /\ r.alloc = 1 =>
       \/ r.freed = 0 /\ r.ret.ret = "0" /\ id \notin DOMAIN before /\ id \in DOMAIN after
       \/ r.freed = 1 /\ r.ret.ret # "0" /\ after = before

\* A delete kept the ownership rule: the vendor frees the descriptor once,
\* exactly when the call returns 0 and the id leaves the registry.
FreedOnDelete(r, before, after, id) ==
  /\ r.alloc = 0 /\ r.freed = 0 /\ r.vfreed \in {0, 1}
  /\ r.vfreed = 1 <=> r.ret.ret = "0"
  /\ r.vfreed = 1 => (id \in DOMAIN before /\ id \notin DOMAIN after)
  /\ r.vfreed = 0 => after = before

\* C17: in every reachable state the descriptors the core allocated and that
\* were not freed are exactly the registered nodes and profiles; every
\* node_add and shaper_profile_create allocates at most one descriptor, which
\* ends up registered or freed once by the core, and allocates none when
\* validation fails; every delete has the vendor free the descriptor once,
\* exactly when it leaves the registry; no other operation allocates or frees.
C17_DescriptorsHeldOrFreedOnce ==
  /\ live = Cardinality(DOMAIN nodes) + Cardinality(DOMAIN profiles)
  /\ \A a \in NodeAddArgs, e \in AllocEnvs :
       LET r == node_add_run(St, a, e)
       IN  /\ OwnedOrFreed(r, nodes, r.nodes, a.node_id)
           /\ r.ret.msg \in {Committed, InvalidParent} => r.alloc = 0
  /\ \A a \in ShaperCreateArgs, e \in AllocEnvs :
       LET r == shaper_profile_create_run(St, a, e)
       IN  /\ OwnedOrFreed(r, profiles, r.profiles, a.shaper_id)
           /\ r.ret.msg = ShaperExists => r.alloc = 0
  /\ \A a \in NodeDeleteArgs, e \in VendorEnvs :
       LET r == node_delete_run(St, a, e)
       IN  FreedOnDelete(r, nodes, r.nodes, a.node_id)
  /\ \A a \in ShaperDeleteArgs, e \in VendorEnvs :
       LET r == shaper_profile_delete_run(St, a, e)
       IN  FreedOnDelete(r, profiles, r.profiles, a.shaper_id)
  /\ \A a \in ShaperUpdateArgs, e \in VendorEnvs :
       LET r == node_shaper_update_run(St, a, e)
       IN  r.alloc = 0 /\ r.freed = 0 /\ r.vfreed = 0
  /\ \A e \in StartEnvs :
       LET r == start_run(St, num_tx_queues, e)
       IN  r.alloc = 0 /\ r.freed = 0 /\ r.vfreed = 0
  /\ \A e \in StopEnvs :
       LET r == stop_run(St, e)
       IN  r.alloc = 0 /\ r.freed = 0 /\ r.vfreed = 0

\* The vendor rejected a node_add on a port that holds nodes and profiles; the
\* descriptors on the heap are those registered.
C17_Witness ==
  /\ last.op = "node_add"
  /\ last.ret.msg = NodeAddErr
  /\ last.nodes_changed = {}
  /\ nodes # EmptyRegistry
  /\ profiles # EmptyRegistry
  /\ live = Cardinality(DOMAIN nodes) + Cardinality(DOMAIN profiles)

StartSteps ==
  <<"roc_nix_tm_is_user_hierarchy_enabled", "roc_nix_tm_leaf_cnt",
    "roc_nix_tm_hierarchy_disable", "roc_nix_tm_hierarchy_enable">>

Calls(r, name) == {k \in DOMAIN r.vcalls : r.vcalls[k] = name}

\* C18: the vendor calls of a start are a prefix of committed-check,
\* leaf-count, disable, enable; the disable is called only on an uncommitted
\* port with at least num_tx_queues leaves, the enable only after the disable
\* succeeded; a start on a committed port calls neither and leaves the port
\* COMMITTED and everything else as it was.
C18_StartStepOrder ==
  \A e \in StartEnvs :
    LET r == start_run(St, num_tx_queues, e)
    IN  /\ Len(r.vcalls) >= 1 /\ Len(r.vcalls) <= Len(StartSteps)
        /\ r.vcalls = SubSeq(StartSteps, 1, Len(r.vcalls))
        /\ Calls(r, "roc_nix_tm_hierarchy_disable") # {} =>
              (~tm_ena /\ roc_nix_tm_leaf_cnt(nodes) >= num_tx_queues)
        /\ Calls(r, "roc_nix_tm_hierarchy_enable") # {} =>
              (Calls(r, "roc_nix_tm_hierarchy_disable") # {} /\ e.vendor_ok)
        /\ tm_ena =>
              /\ Calls(r, "roc_nix_tm_hierarchy_disable") = {}
              /\ Calls(r, "roc_nix_tm_hierarchy_enable") = {}
              /\ r.ret.ret # "0"
              /\ StOf(r) = St

\* A start went through all four steps and committed the hierarchy again
\* after a stop.
C18_Witness ==
  /\ last.op = "start_tm"
  /\ last.ret.ret = "0"
  /\ prev_stop = "0"
  /\ tm_ena
  /\ roc_nix_tm_leaf_cnt(nodes) >= num_tx_queues

\* C19 (as claimed): after any sequence of facade operations the node
\* registry holds at most one node at level ROOT.
C19_SingleRoot ==
  Cardinality({i \in DOMAIN nodes : nodes[i].lvl = ROC_TM_LVL_ROOT}) <= 1

\* C20 (as claimed): when a node_read_stats is interleaved, between vendor
\* calls, with a node_delete of the same node, the stats call returns no-op
\* success or reads the counters of a node that is still registered: it never
\* reads the level or the id of a descriptor the delete has freed.
C20_StatsNeverReadsFreedNode == ~race.uaf

====
